---- MODULE Spec2Model ----
(***************************************************************************)
(* A model of togo_mcp/server.py: the endpoint table loader, the SPARQL    *)
(* query executor and the construction of the tool registry.               *)
(*                                                                         *)
(* Strings that the code transforms (display names, canonical keys) are    *)
(* sequences of one-character strings; strings it only passes on (URLs,    *)
(* queries, response bodies, tool names) are atoms.                        *)
(***************************************************************************)
EXTENDS Integers, Sequences, FiniteSets, TLC

VARIABLES
    pc,               \* position of the module-level code of server.py
    SPARQL_ENDPOINT,  \* the module global; assigned when the load returns
    startupError,     \* the exception that ended the import of server.py, or "none"
    csvFile,          \* rows csv.reader yields for ENDPOINTS_CSV, header first
    rowIdx,           \* number of rows the reader of load_sparql_endpoints has consumed
    endpoints,        \* the local dict `endpoints` of load_sparql_endpoints
    on_duplicate_tools, \* what mcp.add_tool does with a name it already holds
    schemaFile,       \* resources/togoid_oas.json as found on disk
    mcp,              \* the tools of the primary server, by name
    togoid_mcp,       \* the tools of the auxiliary server, in generation order
    togoid_tools,     \* the snapshot get_tools() returned, in dict order
    mergeIdx,         \* number of passes of the merge loop done
    handWritten,      \* names registered on mcp by hand-written modules so far
    preMerge,         \* mcp as it was when the merge loop started
    calls,            \* the invocations of execute_sparql
    lastInvoke,       \* the last invoke(name, args) the protocol layer dispatched
    toolRuns,         \* the names of the tools whose body has run
    retry_attempts,   \* config["retry_attempts"] of the TestRunner
    questions,        \* the questions given to the TestRunner
    qi,               \* the loop variable i of run_all_evaluations
    hpc,              \* position in run_single_evaluation
    exc,              \* the exception that left run_single_evaluation, or "none"
    attempt,          \* the loop variable of _run_with_retry
    result,           \* the local `result` of _run_with_retry
    returning,        \* _run_with_retry has reached a return statement
    trace,            \* the API calls and the sleeps of the current _run_with_retry
    requests,         \* the requests sent to the chat API for the current question
    baseline_result,  \* the local of run_single_evaluation
    togomcp_result,   \* the local of run_single_evaluation
    epc,              \* position in run_all_evaluations
    results,          \* the local list `results` of run_all_evaluations
    intermediate,     \* evaluation_results_intermediate.csv
    selfResults,      \* self.results
    reported,         \* the count printed on an interrupt, or -1
    api_key,          \* whether the NCBIEutilsSearcher was given an API key
    caller,           \* what drives the searcher: a loop of searches or search_all_databases
    budget,           \* the number of searches the callers make in all
    now,              \* time.time(), in ticks
    last_request_time,\* self.last_request_time, in ticks
    npc,              \* position of each thread in _search
    wake,             \* the time each sleeping thread's sleep ends
    sends,            \* the requests sent to NCBI, in order, with their times
    searchResult,     \* what the last _search of each thread returned or raised
    saResults         \* the dict `results` of search_all_databases, in insertion order

loadVars == <<csvFile, rowIdx, endpoints>>
regVars == <<on_duplicate_tools, schemaFile, mcp, togoid_mcp, togoid_tools,
             mergeIdx, handWritten, preMerge>>
invokeVars == <<lastInvoke, toolRuns>>
retryVars == <<attempt, result, returning, trace, requests>>
oneVars == <<hpc, exc, retryVars, baseline_result, togomcp_result>>
allVars == <<qi, epc, results, intermediate, selfResults, reported>>
harnessVars == <<retry_attempts, questions, oneVars, allVars>>
ncbiVars == <<api_key, caller, budget, now, last_request_time, npc, wake, sends,
              searchResult, saResults>>
restVars == <<invokeVars, harnessVars, ncbiVars>>
vars == <<pc, SPARQL_ENDPOINT, startupError, loadVars, regVars, calls, restVars>>

\* What no step of the TestRunner changes: the server and the configuration
fixedVars ==
    <<pc, SPARQL_ENDPOINT, startupError, loadVars, regVars, calls, invokeVars,
      retry_attempts, questions, ncbiVars>>

----------------------------------------------------------------------------
(* Bounds of the model.                                                    *)

MaxNameLen == 2      \* longest display name, in characters
MaxRows == 2         \* most data rows in the endpoint file
MaxOps == 4          \* most operations in the schema document
MaxCalls == 2        \* most invocations of execute_sparql
MaxAttempts == 3     \* largest configured retry_attempts
MaxQuestions == 5    \* most questions in a run
MaxRequests == 11    \* most searches of a single-threaded caller
MaxSharedRequests == 3  \* most searches of two threads sharing a searcher

----------------------------------------------------------------------------
(* Strings.                                                                *)

\* The characters display names are drawn from: an upper-case letter, the
\* space and the hyphen.
Alphabet == {"A", " ", "-"}

Urls == {"u1", "u2"}

\* str.lower() on one character.
LowerChar(c) == IF c = "A" THEN "a" ELSE c

\* str.lower()
Lower(s) == [i \in 1..Len(s) |-> LowerChar(s[i])]

\* str.replace(old, new) for a one-character `old`; `new` is a string.
RECURSIVE Replace(_, _, _)
Replace(s, old, new) ==
    IF s = <<>> THEN <<>>
    ELSE (IF Head(s) = old THEN new ELSE <<Head(s)>>) \o Replace(Tail(s), old, new)

\* The key with hyphens removed first and spaces then turned into hyphens
CanonicalKeySpaceToHyphen(db_name) ==
    Replace(Replace(Lower(db_name), "-", <<>>), " ", <<"-">>)

\* key = db_name.lower().replace(' ', '_').replace('-', '')
CanonicalKey(db_name) ==
    Replace(Replace(Lower(db_name), " ", <<"_">>), "-", <<>>)

\* endpoints[key] = endpoint_url
DictSet(d, key, value) ==
    [k \in DOMAIN d \cup {key} |-> IF k = key THEN value ELSE d[k]]

EmptyDict == [k \in {} |-> "u1"]

----------------------------------------------------------------------------
(* The endpoint file.                                                      *)

Names == UNION {[1..n -> Alphabet] : n \in 0..MaxNameLen}

Header == <<<<"d">>, "h">>

\* Rows with two columns, and the three shapes of a row without: the blank
\* line (csv.reader yields []), one column, three columns.
GoodRows == {<<n, u>> : n \in Names, u \in Urls}
BadRows == {<<>>, << <<"A">> >>, << <<"A">>, "u1", "u1" >>}
Rows == GoodRows \cup BadRows

\* What csv.reader can yield: nothing at all (an empty file), or a header
\* followed by data rows.
CsvFiles ==
    {<<>>} \cup {<<Header>> \o d : d \in UNION {[1..n -> Rows] : n \in 0..MaxRows}}

\* The data rows of a file
DataRows(f) == IF f = <<>> THEN <<>> ELSE Tail(f)

----------------------------------------------------------------------------
(* The tool registries.                                                    *)

\* A registry maps a tool name to the tool; a tool records where it came
\* from: the hand-written function, or the operation of the schema.
EmptyRegistry == [n \in {} |-> [origin |-> "HandWritten", op |-> "-"]]

HandWrittenTool(name) == [origin |-> "HandWritten", op |-> name]
GeneratedTool(op) == [origin |-> "SchemaGenerated", op |-> op]

\* mcp_names of the from_openapi call
mcp_names ==
    [op \in {"getAllDataset", "getDataset", "getAllRelation", "getRelation",
             "convertId", "countId", "getDescription"} |->
        CASE op = "getAllDataset" -> "togoId_getAllDataset"
          [] op = "getDataset" -> "togoId_getDataset"
          [] op = "getAllRelation" -> "togoId_getAllRelation"
          [] op = "getRelation" -> "togoId_getRelation"
          [] op = "convertId" -> "togoId_convertId"
          [] op = "countId" -> "togoId_countId"
          [] op = "getDescription" -> "togoId_getDescription"]

\* The name from_openapi gives the tool of an operation, without mcp_names
GeneratedNameIgnoringMap(op) == op

\* The name from_openapi gives the tool of an operation: the entry of
\* mcp_names when there is one, the operation id otherwise.
GeneratedName(op) ==
    IF op \in DOMAIN mcp_names THEN mcp_names[op] ELSE op

\* The operation ids schemas are drawn from: three that mcp_names renames and
\* one that it does not.
OperationIds == {"getAllDataset", "getDataset", "convertId", "getStatus"}

\* The sequences without repetition of at most n elements of S
DistinctSeqs(S, n) ==
    {q \in UNION {[1..k -> S] : k \in 0..n} :
        \A i, j \in 1..Len(q) : i # j => q[i] # q[j]}

\* resources/togoid_oas.json: absent, not JSON, or a document declaring
\* operations with distinct ids.
MissingSchema == [state |-> "missing", ops |-> <<>>]
MalformedSchema == [state |-> "malformed", ops |-> <<>>]
SchemaFiles ==
    {MissingSchema, MalformedSchema}
      \cup {[state |-> "ok", ops |-> o] : o \in DistinctSeqs(OperationIds, MaxOps)}

\* The names hand-written modules register with @mcp.tool(); the last one is
\* also a name mcp_names produces.
HandWrittenNames == {"get_sparql_endpoints", "run_sparql", "togoId_getDataset"}

\* The policies of a FastMCP server for a tool name it already holds. The
\* server of server.py is built without on_duplicate_tools and has the
\* library's default.
DuplicateBehavior == {"warn", "error", "replace", "ignore"}

\* add_tool raises: the name is taken and the policy is "error".
AddToolRaises(reg, policy, name) == policy = "error" /\ name \in DOMAIN reg

\* add_tool that keeps only the tool it is given
AddToolForgetsOthers(reg, policy, name, tool) == [n \in {name} |-> tool]

\* The registry after add_tool(tool) returned: a new name is added; a taken
\* name is replaced ("warn", "replace") or kept ("ignore").
AddTool(reg, policy, name, tool) ==
    IF name \notin DOMAIN reg \/ policy \in {"warn", "replace"}
      THEN [n \in DOMAIN reg \cup {name} |-> IF n = name THEN tool ELSE reg[n]]
      ELSE reg

\* list_tools(): the names the registry presents to the protocol layer
list_tools == DOMAIN mcp

----------------------------------------------------------------------------
(* The invocations of execute_sparql.                                      *)

CallIds == 1..MaxCalls

Queries == {"q1"}
Bodies == {"b1", "b2"}
Statuses == {200, 302, 404, 500}

\* The dbname arguments: two keys the loader can produce and one it cannot.
DbNames == {<<"a">>, <<"a", "_">>, <<"z">>}

NoResult == [kind |-> "none", status |-> 0, text |-> "-"]

IdleCall ==
    [at |-> "idle", dbname |-> <<>>, query |-> "-", clients |-> 0, open |-> 0,
     sent |-> <<>>, status |-> 0, body |-> "-", result |-> NoResult]

----------------------------------------------------------------------------
(* load_sparql_endpoints                                                   *)

\* No invoke has been dispatched.
NoInvoke == [name |-> "-", outcome |-> "none"]

\* A result of _make_api_call: its 'success' value, the keys of the
\* dictionary, and the text of the response or of the error. Unbound is the
\* local `result` of _run_with_retry before its first assignment.
Unbound == [bound |-> FALSE, success |-> FALSE, keys |-> {}, text |-> "-"]

\* The TestRunner is idle: it has no questions and is in no method.
InitHarness ==
    /\ retry_attempts = 0
    /\ questions = <<>>
    /\ qi = 0
    /\ hpc = "idle"
    /\ exc = "none"
    /\ attempt = 0
    /\ result = Unbound
    /\ returning = FALSE
    /\ trace = <<>>
    /\ requests = <<>>
    /\ baseline_result = Unbound
    /\ togomcp_result = Unbound
    /\ epc = "idle"
    /\ results = <<>>
    /\ intermediate = [written |-> FALSE, rows |-> <<>>]
    /\ selfResults = <<>>
    /\ reported = -1

\* The threads that may share one NCBIEutilsSearcher
Threads == {1, 2}

\* No search has ended yet
NoSearch == [outcome |-> "none", result |-> "none"]

\* No NCBIEutilsSearcher has been made.
InitSearcherIdle ==
    /\ api_key = FALSE
    /\ caller = "none"
    /\ budget = 0
    /\ now = 0
    /\ last_request_time = 0
    /\ npc = [t \in Threads |-> "off"]
    /\ wake = [t \in Threads |-> 0]
    /\ sends = <<>>
    /\ searchResult = [t \in Threads |-> NoSearch]
    /\ saResults = <<>>

InitInvoke ==
    /\ lastInvoke = NoInvoke
    /\ toolRuns = {}
    /\ InitHarness
    /\ InitSearcherIdle

\* The state in which the import of server.py starts, for an endpoint file
\* of `files`, a schema file of `schemas` and a duplicate policy of `policies`.
InitImport(files, schemas, policies) ==
    /\ pc = "load_header"
    /\ csvFile \in files
    /\ rowIdx = 0
    /\ endpoints = EmptyDict
    /\ SPARQL_ENDPOINT = EmptyDict
    /\ startupError = "none"
    /\ on_duplicate_tools \in policies
    /\ schemaFile \in schemas
    /\ mcp = EmptyRegistry
    /\ togoid_mcp = <<>>
    /\ togoid_tools = <<>>
    /\ mergeIdx = 0
    /\ handWritten = {}
    /\ preMerge = EmptyRegistry
    /\ calls = [c \in CallIds |-> IdleCall]
    /\ InitInvoke

InitLoad == InitImport(CsvFiles, {MissingSchema}, {"warn"})

\* next(reader): skip the header; StopIteration on a file without one
LoadSkipHeader ==
    /\ pc = "load_header"
    /\ IF Len(csvFile) = 0
         THEN /\ pc' = "aborted"
              /\ startupError' = "StopIteration"
              /\ UNCHANGED rowIdx
         ELSE /\ pc' = "load_rows"
              /\ rowIdx' = 1
              /\ UNCHANGED startupError
    /\ UNCHANGED <<csvFile, endpoints, SPARQL_ENDPOINT, regVars, calls, restVars>>

\* One pass of the loop that skips a row without exactly two columns
LoadRowSkipsMalformed ==
    /\ pc = "load_rows"
    /\ rowIdx < Len(csvFile)
    /\ LET row == csvFile[rowIdx + 1] IN
         /\ endpoints' = IF Len(row) # 2 THEN endpoints
                          ELSE DictSet(endpoints, CanonicalKey(row[1]), row[2])
         /\ rowIdx' = rowIdx + 1
    /\ UNCHANGED <<pc, startupError, csvFile, SPARQL_ENDPOINT, regVars, calls, restVars>>

\* One pass of `for row in reader`: unpack the row into two names (ValueError
\* unless it has exactly two columns), derive the key, store the URL.
LoadRow ==
    /\ pc = "load_rows"
    /\ rowIdx < Len(csvFile)
    /\ LET row == csvFile[rowIdx + 1] IN
         IF Len(row) # 2
           THEN /\ pc' = "aborted"
                /\ startupError' = "ValueError"
                /\ UNCHANGED <<rowIdx, endpoints>>
           ELSE /\ endpoints' = DictSet(endpoints, CanonicalKey(row[1]), row[2])
                /\ rowIdx' = rowIdx + 1
                /\ UNCHANGED <<pc, startupError>>
    /\ UNCHANGED <<csvFile, SPARQL_ENDPOINT, regVars, calls, restVars>>

\* return endpoints; SPARQL_ENDPOINT = load_sparql_endpoints(ENDPOINTS_CSV)
LoadReturn ==
    /\ pc = "load_rows"
    /\ rowIdx = Len(csvFile)
    /\ SPARQL_ENDPOINT' = endpoints
    /\ pc' = "registry"
    /\ UNCHANGED <<csvFile, rowIdx, endpoints, startupError, regVars, calls, restVars>>

NextLoad == LoadSkipHeader \/ LoadRow \/ LoadReturn

SpecLoad == InitLoad /\ [][NextLoad]_vars

----------------------------------------------------------------------------
(* The module-level code of server.py after the load: the two servers and  *)
(* the merge.                                                              *)

\* mcp = FastMCP(...); togoid_client = httpx.AsyncClient(...)
CreateRegistry ==
    /\ pc = "registry"
    /\ mcp' = EmptyRegistry
    /\ pc' = "schema"
    /\ UNCHANGED <<SPARQL_ENDPOINT, startupError, loadVars, calls, restVars,
                   on_duplicate_tools, schemaFile, togoid_mcp, togoid_tools,
                   mergeIdx, handWritten, preMerge>>

\* A hand-written module registers a function with @mcp.tool(). The modules
\* that do are not part of server.py, which fixes no order between their
\* registrations and its merge: a registration is taken either before the
\* schema is read or once the module body has run.
RegisterHandWritten(name) ==
    /\ pc \in {"schema", "imported"}
    /\ name \notin handWritten
    /\ IF AddToolRaises(mcp, on_duplicate_tools, name)
         THEN /\ pc' = "aborted"
              /\ startupError' = "ValueError"
              /\ UNCHANGED <<mcp, handWritten>>
         ELSE /\ mcp' = AddTool(mcp, on_duplicate_tools, name, HandWrittenTool(name))
              /\ handWritten' = handWritten \cup {name}
              /\ UNCHANGED <<pc, startupError>>
    /\ UNCHANGED <<SPARQL_ENDPOINT, loadVars, calls, restVars, on_duplicate_tools,
                   schemaFile, togoid_mcp, togoid_tools, mergeIdx, preMerge>>

\* with open("resources/togoid_oas.json") as f: openapi_spec = json.load(f)
LoadSchema ==
    /\ pc = "schema"
    /\ IF schemaFile.state = "ok"
         THEN /\ pc' = "generate"
              /\ UNCHANGED startupError
         ELSE /\ pc' = "aborted"
              /\ startupError' = IF schemaFile.state = "missing"
                                   THEN "FileNotFoundError"
                                   ELSE "JSONDecodeError"
    /\ UNCHANGED <<SPARQL_ENDPOINT, loadVars, regVars, calls, restVars>>

\* togoid_mcp = FastMCP.from_openapi(openapi_spec, client, name, mcp_names):
\* one tool for each operation of the schema, under its generated name.
GenerateTools ==
    /\ pc = "generate"
    /\ togoid_mcp' = [i \in 1..Len(schemaFile.ops) |->
                        [name |-> GeneratedName(schemaFile.ops[i]),
                         tool |-> GeneratedTool(schemaFile.ops[i])]]
    /\ pc' = "get_tools"
    /\ UNCHANGED <<SPARQL_ENDPOINT, startupError, loadVars, calls, restVars,
                   on_duplicate_tools, schemaFile, mcp, togoid_tools,
                   mergeIdx, handWritten, preMerge>>

\* togoid_tools = asyncio.run(togoid_mcp.get_tools())
GetTools ==
    /\ pc = "get_tools"
    /\ togoid_tools' = togoid_mcp
    /\ mergeIdx' = 0
    /\ preMerge' = mcp
    /\ pc' = "merge"
    /\ UNCHANGED <<SPARQL_ENDPOINT, startupError, loadVars, calls, restVars,
                   on_duplicate_tools, schemaFile, mcp, togoid_mcp, handWritten>>

\* One pass of `for key in togoid_tools: mcp.add_tool(togoid_tools[key])`
MergeStep ==
    /\ pc = "merge"
    /\ mergeIdx < Len(togoid_tools)
    /\ LET t == togoid_tools[mergeIdx + 1] IN
         IF AddToolRaises(mcp, on_duplicate_tools, t.name)
           THEN /\ pc' = "aborted"
                /\ startupError' = "ValueError"
                /\ UNCHANGED <<mcp, mergeIdx>>
           ELSE /\ mcp' = AddTool(mcp, on_duplicate_tools, t.name, t.tool)
                /\ mergeIdx' = mergeIdx + 1
                /\ UNCHANGED <<pc, startupError>>
    /\ UNCHANGED <<SPARQL_ENDPOINT, loadVars, calls, restVars, on_duplicate_tools,
                   schemaFile, togoid_mcp, togoid_tools, handWritten, preMerge>>

\* The merge loop left before its last pass
MergeDoneBeforeLoopEnds ==
    /\ pc = "merge"
    /\ pc' = "imported"
    /\ UNCHANGED <<SPARQL_ENDPOINT, startupError, loadVars, regVars, calls, restVars>>

\* The merge loop ends, and with it the module body.
MergeDone ==
    /\ pc = "merge"
    /\ mergeIdx = Len(togoid_tools)
    /\ pc' = "imported"
    /\ UNCHANGED <<SPARQL_ENDPOINT, startupError, loadVars, regVars, calls, restVars>>

\* The entry point starts the server: the registry goes from Building to
\* Serving when the outer server begins to accept requests.
Serve ==
    /\ pc = "imported"
    /\ pc' = "serving"
    /\ UNCHANGED <<SPARQL_ENDPOINT, startupError, loadVars, regVars, calls, restVars>>

\* The names the protocol layer asks for: a hand-written name, a mapped
\* name, and an operation id that is registered under neither.
InvokeNames == {"get_sparql_endpoints", "togoId_getAllDataset", "getAllDataset"}

\* invoke that runs the body of some registered tool for a name it does not hold
InvokeFallsBack(name) ==
    /\ pc = "serving"
    /\ IF DOMAIN mcp # {}
         THEN /\ lastInvoke' = [name |-> name, outcome |-> "ran"]
              /\ toolRuns' = toolRuns \cup
                    {IF name \in DOMAIN mcp THEN name ELSE CHOOSE n \in DOMAIN mcp : TRUE}
         ELSE /\ lastInvoke' = [name |-> name, outcome |-> "UnknownTool"]
              /\ UNCHANGED toolRuns
    /\ UNCHANGED <<pc, SPARQL_ENDPOINT, startupError, loadVars, regVars, calls,
                   harnessVars, ncbiVars>>

\* invoke(name, arguments): look the descriptor up and run it; UnknownTool
\* for a name the registry does not hold.
Invoke(name) ==
    /\ pc = "serving"
    /\ IF name \in DOMAIN mcp
         THEN /\ lastInvoke' = [name |-> name, outcome |-> "ran"]
              /\ toolRuns' = toolRuns \cup {name}
         ELSE /\ lastInvoke' = [name |-> name, outcome |-> "UnknownTool"]
              /\ UNCHANGED toolRuns
    /\ UNCHANGED <<pc, SPARQL_ENDPOINT, startupError, loadVars, regVars, calls,
                   harnessVars, ncbiVars>>

\* The endpoint files the whole import is run on: no header, no rows, one
\* row, a blank row.
StartupCsvFiles ==
    {<<>>, <<Header>>, <<Header, << <<"A">>, "u1" >> >>, <<Header, <<>> >>}

Init == InitImport(StartupCsvFiles, SchemaFiles, DuplicateBehavior)

Next ==
    \/ LoadSkipHeader
    \/ LoadRow
    \/ LoadReturn
    \/ CreateRegistry
    \/ \E name \in HandWrittenNames : RegisterHandWritten(name)
    \/ LoadSchema
    \/ GenerateTools
    \/ GetTools
    \/ MergeStep
    \/ MergeDone
    \/ Serve
    \/ \E name \in InvokeNames : Invoke(name)

Spec == Init /\ [][Next]_vars

----------------------------------------------------------------------------
(* execute_sparql. The invocations run as coroutines of one event loop:    *)
(* the code between two awaits of an invocation is one step.               *)

\* The whole of load_sparql_endpoints on the data rows of a well-formed file
RECURSIVE LoadAll(_, _)
LoadAll(rows, d) ==
    IF rows = <<>> THEN d
    ELSE LoadAll(Tail(rows), DictSet(d, CanonicalKey(Head(rows)[1]), Head(rows)[2]))

\* The endpoint files behind the tables the invocations run against
ServingCsvFiles ==
    {<<Header>>,
     <<Header, << <<"A">>, "u1" >> >>,
     <<Header, << <<"A">>, "u1" >>, << <<"A", " ">>, "u2" >> >>}

SetCall(c, r) == [calls EXCEPT ![c] = r]

\* execute_sparql(sparql_query, dbname) is called
ExecCall(c, q, db) ==
    /\ pc = "serving"
    /\ calls[c].at = "idle"
    /\ calls' = SetCall(c, [calls[c] EXCEPT !.at = "check", !.dbname = db, !.query = q])
    /\ UNCHANGED <<pc, SPARQL_ENDPOINT, startupError, loadVars, regVars, restVars>>

\* The check of dbname, placed after the client is opened
ExecCheckAfterClient(c) ==
    /\ pc = "serving"
    /\ calls[c].at = "check"
    /\ calls' = SetCall(c, [calls[c] EXCEPT
                  !.clients = @ + 1,
                  !.at = IF calls[c].dbname \in DOMAIN SPARQL_ENDPOINT
                           THEN "post" ELSE "done",
                  !.open = IF calls[c].dbname \in DOMAIN SPARQL_ENDPOINT
                             THEN 1 ELSE 0,
                  !.result = IF calls[c].dbname \in DOMAIN SPARQL_ENDPOINT
                               THEN NoResult
                               ELSE [kind |-> "ValueError", status |-> 0, text |-> "-"]])
    /\ UNCHANGED <<pc, SPARQL_ENDPOINT, startupError, loadVars, regVars, restVars>>

\* The check of dbname, remembering an unknown dbname in the table
ExecCheckRemembersUnknown(c) ==
    /\ pc = "serving"
    /\ calls[c].at = "check"
    /\ IF calls[c].dbname \notin DOMAIN SPARQL_ENDPOINT
         THEN /\ calls' = SetCall(c, [calls[c] EXCEPT
                    !.at = "done",
                    !.result = [kind |-> "ValueError", status |-> 0, text |-> "-"]])
              /\ SPARQL_ENDPOINT' = DictSet(SPARQL_ENDPOINT, calls[c].dbname, "u1")
         ELSE /\ calls' = SetCall(c, [calls[c] EXCEPT
                    !.at = "post", !.clients = @ + 1, !.open = 1])
              /\ UNCHANGED SPARQL_ENDPOINT
    /\ UNCHANGED <<pc, startupError, loadVars, regVars, restVars>>

\* if dbname not in SPARQL_ENDPOINT: raise ValueError; otherwise enter
\* `async with httpx.AsyncClient() as client`
ExecCheck(c) ==
    /\ pc = "serving"
    /\ calls[c].at = "check"
    /\ IF calls[c].dbname \notin DOMAIN SPARQL_ENDPOINT
         THEN calls' = SetCall(c, [calls[c] EXCEPT
                  !.at = "done",
                  !.result = [kind |-> "ValueError", status |-> 0, text |-> "-"]])
         ELSE calls' = SetCall(c, [calls[c] EXCEPT
                  !.at = "post", !.clients = @ + 1, !.open = 1])
    /\ UNCHANGED <<pc, SPARQL_ENDPOINT, startupError, loadVars, regVars, restVars>>

\* The request of the POST, sent to the first URL of the table
ExecPostFirstUrl(c) ==
    /\ pc = "serving"
    /\ calls[c].at = "post"
    /\ calls' = SetCall(c, [calls[c] EXCEPT
          !.at = "await",
          !.sent = Append(@, [method |-> "POST",
                              url |-> SPARQL_ENDPOINT[CHOOSE k \in DOMAIN SPARQL_ENDPOINT : TRUE],
                              query |-> calls[c].query,
                              accept |-> "text/csv"])])
    /\ UNCHANGED <<pc, SPARQL_ENDPOINT, startupError, loadVars, regVars, restVars>>

\* client.post(SPARQL_ENDPOINT[dbname], data={"query": sparql_query},
\* headers={"Accept": "text/csv"}): the request goes out and the
\* invocation awaits the response.
ExecPost(c) ==
    /\ pc = "serving"
    /\ calls[c].at = "post"
    /\ calls' = SetCall(c, [calls[c] EXCEPT
          !.at = "await",
          !.sent = Append(@, [method |-> "POST",
                              url |-> SPARQL_ENDPOINT[calls[c].dbname],
                              query |-> calls[c].query,
                              accept |-> "text/csv"])])
    /\ UNCHANGED <<pc, SPARQL_ENDPOINT, startupError, loadVars, regVars, restVars>>

\* The response as it would be with one client shared by the invocations:
\* an error status closes it under every invocation awaiting a response.
ExecResponseSharedClient(c, st, b) ==
    /\ pc = "serving"
    /\ calls[c].at = "await"
    /\ calls' = [d \in CallIds |->
          IF d = c
            THEN [calls[c] EXCEPT !.at = "status", !.status = st, !.body = b, !.open = 0]
            ELSE IF calls[d].at = "await" /\ ~(200 <= st /\ st <= 299)
                   THEN [calls[d] EXCEPT
                           !.at = "done", !.open = 0,
                           !.result = [kind |-> "RequestError", status |-> 0, text |-> "-"]]
                   ELSE calls[d]]
    /\ UNCHANGED <<pc, SPARQL_ENDPOINT, startupError, loadVars, regVars, restVars>>

\* The await of client.post ends with a response, of any status and body;
\* leaving the `async with` block closes the client.
ExecResponse(c, st, b) ==
    /\ pc = "serving"
    /\ calls[c].at = "await"
    /\ calls' = SetCall(c, [calls[c] EXCEPT
          !.at = "status", !.status = st, !.body = b, !.open = 0])
    /\ UNCHANGED <<pc, SPARQL_ENDPOINT, startupError, loadVars, regVars, restVars>>

\* The await of client.post ends with a transport error (httpx.RequestError):
\* it leaves the `async with` block, which closes the client, and
\* execute_sparql.
ExecTransportError(c) ==
    /\ pc = "serving"
    /\ calls[c].at = "await"
    /\ calls' = SetCall(c, [calls[c] EXCEPT
          !.at = "done", !.open = 0,
          !.result = [kind |-> "RequestError", status |-> 0, text |-> "-"]])
    /\ UNCHANGED <<pc, SPARQL_ENDPOINT, startupError, loadVars, regVars, restVars>>

\* httpx.Response.is_success
IsSuccess(st) == 200 <= st /\ st <= 299

\* The end of execute_sparql without raise_for_status
ExecReturnAnyStatus(c) ==
    /\ pc = "serving"
    /\ calls[c].at = "status"
    /\ calls' = SetCall(c, [calls[c] EXCEPT
          !.at = "done",
          !.result = [kind |-> "value", status |-> 0, text |-> calls[c].body]])
    /\ UNCHANGED <<pc, SPARQL_ENDPOINT, startupError, loadVars, regVars, restVars>>

\* response.raise_for_status(); return response.text
ExecReturn(c) ==
    /\ pc = "serving"
    /\ calls[c].at = "status"
    /\ calls' = SetCall(c, [calls[c] EXCEPT
          !.at = "done",
          !.result = IF IsSuccess(calls[c].status)
                       THEN [kind |-> "value", status |-> 0, text |-> calls[c].body]
                       ELSE [kind |-> "HTTPStatusError",
                             status |-> calls[c].status, text |-> "-"]])
    /\ UNCHANGED <<pc, SPARQL_ENDPOINT, startupError, loadVars, regVars, restVars>>

\* The server is serving, with the table of one of the endpoint files and
\* no invocation started.
InitExec ==
    /\ pc = "serving"
    /\ SPARQL_ENDPOINT \in {LoadAll(DataRows(f), EmptyDict) : f \in ServingCsvFiles}
    /\ startupError = "none"
    /\ csvFile = <<>>
    /\ rowIdx = 0
    /\ endpoints = EmptyDict
    /\ on_duplicate_tools = "warn"
    /\ schemaFile = MissingSchema
    /\ mcp = EmptyRegistry
    /\ togoid_mcp = <<>>
    /\ togoid_tools = <<>>
    /\ mergeIdx = 0
    /\ handWritten = {}
    /\ preMerge = EmptyRegistry
    /\ calls = [c \in CallIds |-> IdleCall]
    /\ InitInvoke

NextExec ==
    \E c \in CallIds :
      \/ \E q \in Queries, db \in DbNames : ExecCall(c, q, db)
      \/ ExecCheck(c)
      \/ ExecPost(c)
      \/ \E st \in Statuses, b \in Bodies : ExecResponse(c, st, b)
      \/ ExecTransportError(c)
      \/ ExecReturn(c)

SpecExec == InitExec /\ [][NextExec]_vars

----------------------------------------------------------------------------
(* evaluation/scripts/automated_test_runner.py: one question.              *)

\* The server is not part of the run of the TestRunner.
InitServerIdle ==
    /\ pc = "idle"
    /\ SPARQL_ENDPOINT = EmptyDict
    /\ startupError = "none"
    /\ csvFile = <<>>
    /\ rowIdx = 0
    /\ endpoints = EmptyDict
    /\ on_duplicate_tools = "warn"
    /\ schemaFile = MissingSchema
    /\ mcp = EmptyRegistry
    /\ togoid_mcp = <<>>
    /\ togoid_tools = <<>>
    /\ mergeIdx = 0
    /\ handWritten = {}
    /\ preMerge = EmptyRegistry
    /\ calls = [c \in CallIds |-> IdleCall]
    /\ lastInvoke = NoInvoke
    /\ toolRuns = {}

\* A question: whether it has the "question" key, and its "mcp_servers"
\* field: absent (get returns None), the empty list, or a list of servers.
QuestionKinds == [hasText : BOOLEAN, mcp_servers : {"None", "empty", "custom"}]

\* What client.messages.create does: it returns a response, raises an
\* exception (two different ones), or is interrupted from the keyboard.
ApiOutcomes ==
    {[kind |-> "ok", text |-> "t1"], [kind |-> "error", text |-> "e1"],
     [kind |-> "error", text |-> "e2"], [kind |-> "interrupt", text |-> "-"]}

\* The dictionary _make_api_call returns for a response
SuccessResult(text) ==
    [bound |-> TRUE, success |-> TRUE,
     keys |-> {"success", "text", "tool_uses", "elapsed_time", "stop_reason", "usage"},
     text |-> text]

\* The dictionary of the except branch, without its elapsed_time
FailureResultNoTime(err) ==
    [bound |-> TRUE, success |-> FALSE, keys |-> {"success", "error"}, text |-> err]

\* The dictionary _make_api_call returns from its except branch
FailureResult(err) ==
    [bound |-> TRUE, success |-> FALSE,
     keys |-> {"success", "error", "elapsed_time"}, text |-> err]

\* What _make_api_call returns when client.messages.create ends with o
MakeApiCall(o) ==
    IF o.kind = "ok" THEN SuccessResult(o.text) ELSE FailureResult(o.text)

\* kwargs["mcp_servers"] of the request: set only `if use_tools and mcp_servers`
RequestServers(use_tools, mcp_servers) ==
    IF use_tools /\ mcp_servers \in {"default", "custom"} THEN mcp_servers ELSE "absent"

\* The question run_single_evaluation is evaluating
Question == questions[qi + 1]

\* run_togomcp_test: `if mcp_servers is None:` the default TogoMCP server
TogoServers(q) == IF q.mcp_servers = "None" THEN "default" ELSE q.mcp_servers

\* The request _make_api_call sends in the test that is running
CurrentRequest ==
    [test |-> hpc,
     servers |-> IF hpc = "baseline"
                   THEN RequestServers(FALSE, "None")
                   ELSE RequestServers(TRUE, TogoServers(Question))]

CallEvent(r) == [ev |-> "call", res |-> r]
SleepEvent == [ev |-> "sleep", res |-> Unbound]

\* A new frame of _run_with_retry
NewRetryFrame ==
    /\ attempt' = 0
    /\ result' = Unbound
    /\ returning' = FALSE
    /\ trace' = <<>>

\* run_single_evaluation reads question["question"] and starts the baseline
\* test.
SingleStart ==
    /\ hpc = "start"
    /\ IF Question.hasText
         THEN /\ hpc' = "baseline"
              /\ UNCHANGED exc
         ELSE /\ hpc' = "raised"
              /\ exc' = "KeyError_question"
    /\ NewRetryFrame
    /\ requests' = <<>>
    /\ UNCHANGED <<baseline_result, togomcp_result>>
    /\ UNCHANGED <<fixedVars, allVars>>

\* One pass of the loop that sleeps after every failed attempt
RetryAttemptSleepsAfterLast(o) ==
    /\ hpc \in {"baseline", "togomcp"}
    /\ ~returning
    /\ attempt < retry_attempts
    /\ requests' = Append(requests, CurrentRequest)
    /\ IF o.kind = "interrupt"
         THEN /\ hpc' = "raised"
              /\ exc' = "KeyboardInterrupt"
              /\ trace' = Append(trace, CallEvent(Unbound))
              /\ UNCHANGED <<attempt, result, returning>>
         ELSE LET r == MakeApiCall(o) IN
              /\ result' = r
              /\ returning' = r.success
              /\ attempt' = IF r.success THEN attempt ELSE attempt + 1
              /\ trace' = IF r.success
                            THEN Append(trace, CallEvent(r))
                            ELSE trace \o <<CallEvent(r), SleepEvent>>
              /\ UNCHANGED <<hpc, exc>>
    /\ UNCHANGED <<baseline_result, togomcp_result>>
    /\ UNCHANGED <<fixedVars, allVars>>

\* One pass of `for attempt in range(retry_attempts)`: _make_api_call sends
\* the request; a successful result is returned; after a failed one the
\* loop sleeps retry_delay unless the attempt was the last.
RetryAttempt(o) ==
    /\ hpc \in {"baseline", "togomcp"}
    /\ ~returning
    /\ attempt < retry_attempts
    /\ requests' = Append(requests, CurrentRequest)
    /\ IF o.kind = "interrupt"
         THEN /\ hpc' = "raised"
              /\ exc' = "KeyboardInterrupt"
              /\ trace' = Append(trace, CallEvent(Unbound))
              /\ UNCHANGED <<attempt, result, returning>>
         ELSE LET r == MakeApiCall(o) IN
              /\ result' = r
              /\ returning' = r.success
              /\ attempt' = IF r.success THEN attempt ELSE attempt + 1
              /\ trace' = IF r.success \/ attempt >= retry_attempts - 1
                            THEN Append(trace, CallEvent(r))
                            ELSE trace \o <<CallEvent(r), SleepEvent>>
              /\ UNCHANGED <<hpc, exc>>
    /\ UNCHANGED <<baseline_result, togomcp_result>>
    /\ UNCHANGED <<fixedVars, allVars>>

\* The loop is exhausted: `return result`, an UnboundLocalError when no pass
\* has assigned it.
RetryExhausted ==
    /\ hpc \in {"baseline", "togomcp"}
    /\ ~returning
    /\ attempt >= retry_attempts
    /\ IF result.bound
         THEN /\ returning' = TRUE
              /\ UNCHANGED <<hpc, exc>>
         ELSE /\ hpc' = "raised"
              /\ exc' = "UnboundLocalError"
              /\ UNCHANGED returning
    /\ UNCHANGED <<attempt, result, trace, requests, baseline_result, togomcp_result>>
    /\ UNCHANGED <<fixedVars, allVars>>

\* The keys run_single_evaluation subscripts right after a test: "success",
\* then "elapsed_time" (and "tool_uses" after the TogoMCP test) or "error".
ReportKeys(res, test) ==
    {"success"} \cup
      (IF res.success
         THEN {"elapsed_time"} \cup (IF test = "togomcp" THEN {"tool_uses"} ELSE {})
         ELSE {"error"})

\* The keys of a result the row is built from by subscript (not by get)
RowKeys(res) ==
    {"success", "elapsed_time"} \cup (IF res.success THEN {"usage"} ELSE {})

\* _run_with_retry returns to run_single_evaluation, which reports the test
\* and goes on to the TogoMCP test or to the row.
TestReturns ==
    /\ hpc \in {"baseline", "togomcp"}
    /\ returning
    /\ IF hpc = "baseline"
         THEN /\ baseline_result' = result
              /\ UNCHANGED togomcp_result
         ELSE /\ togomcp_result' = result
              /\ UNCHANGED baseline_result
    /\ IF ReportKeys(result, hpc) \subseteq result.keys
         THEN /\ hpc' = IF hpc = "baseline" THEN "togomcp" ELSE "compile"
              /\ UNCHANGED exc
         ELSE /\ hpc' = "raised"
              /\ exc' = "KeyError_result"
    /\ NewRetryFrame
    /\ UNCHANGED requests
    /\ UNCHANGED <<fixedVars, allVars>>

\* result = {...}: the row is compiled from the two results and returned.
CompileRow ==
    /\ hpc = "compile"
    /\ IF /\ RowKeys(baseline_result) \subseteq baseline_result.keys
          /\ RowKeys(togomcp_result) \subseteq togomcp_result.keys
         THEN /\ hpc' = "returned"
              /\ UNCHANGED exc
         ELSE /\ hpc' = "raised"
              /\ exc' = "KeyError_result"
    /\ UNCHANGED <<retryVars, baseline_result, togomcp_result>>
    /\ UNCHANGED <<fixedVars, allVars>>

\* run_single_evaluation is called for one question, with a configured
\* retry_attempts.
InitOne ==
    /\ InitServerIdle
    /\ retry_attempts \in 0..MaxAttempts
    /\ questions \in {<<q>> : q \in QuestionKinds}
    /\ qi = 0
    /\ hpc = "start"
    /\ exc = "none"
    /\ attempt = 0
    /\ result = Unbound
    /\ returning = FALSE
    /\ trace = <<>>
    /\ requests = <<>>
    /\ baseline_result = Unbound
    /\ togomcp_result = Unbound
    /\ epc = "idle"
    /\ results = <<>>
    /\ intermediate = [written |-> FALSE, rows |-> <<>>]
    /\ selfResults = <<>>
    /\ reported = -1
    /\ InitSearcherIdle

\* The steps of run_single_evaluation
NextOne ==
    \/ SingleStart
    \/ \E o \in ApiOutcomes : RetryAttempt(o)
    \/ RetryExhausted
    \/ TestReturns
    \/ CompileRow

SpecOne == InitOne /\ [][NextOne]_vars

----------------------------------------------------------------------------
(* evaluation/scripts/automated_test_runner.py: the run over all questions.*)

\* `if (i + 1) % 5 == 0`: the period of the intermediate save
SaveEvery == 5

\* The questions of a run: with or without the "question" key, none naming
\* its own servers.
RunQuestionKinds == {q \in QuestionKinds : q.mcp_servers = "None"}

\* `for i, question in enumerate(questions)`: the next question enters
\* run_single_evaluation.
LoopEnter ==
    /\ epc = "loop"
    /\ qi < Len(questions)
    /\ epc' = "eval"
    /\ hpc' = "start"
    /\ UNCHANGED <<qi, results, intermediate, selfResults, reported>>
    /\ UNCHANGED <<exc, retryVars, baseline_result, togomcp_result>>
    /\ UNCHANGED fixedVars

\* The handler that ends the run on any exception
LoopExceptStopsRun ==
    /\ epc = "eval"
    /\ hpc = "raised"
    /\ reported' = IF exc = "KeyboardInterrupt" THEN qi ELSE reported
    /\ epc' = "finish"
    /\ hpc' = "idle"
    /\ exc' = "none"
    /\ UNCHANGED <<qi, results, intermediate, selfResults>>
    /\ UNCHANGED <<retryVars, baseline_result, togomcp_result>>
    /\ UNCHANGED fixedVars

\* run_single_evaluation raised. except KeyboardInterrupt: report i
\* completed questions and break; except Exception: continue with the next
\* question.
LoopExcept ==
    /\ epc = "eval"
    /\ hpc = "raised"
    /\ IF exc = "KeyboardInterrupt"
         THEN /\ reported' = qi
              /\ epc' = "finish"
              /\ UNCHANGED qi
         ELSE /\ qi' = qi + 1
              /\ epc' = "loop"
              /\ UNCHANGED reported
    /\ hpc' = "idle"
    /\ exc' = "none"
    /\ UNCHANGED <<results, intermediate, selfResults>>
    /\ UNCHANGED <<retryVars, baseline_result, togomcp_result>>
    /\ UNCHANGED fixedVars

\* run_single_evaluation returned its row: results.append(result), then
\* the intermediate file is rewritten with all of results when i + 1 is a
\* multiple of 5.
LoopAppend ==
    /\ epc = "eval"
    /\ hpc = "returned"
    /\ results' = Append(results, qi + 1)
    /\ intermediate' = IF (qi + 1) % SaveEvery = 0
                         THEN [written |-> TRUE, rows |-> results']
                         ELSE intermediate
    /\ qi' = qi + 1
    /\ epc' = "loop"
    /\ hpc' = "idle"
    /\ UNCHANGED <<selfResults, reported>>
    /\ UNCHANGED <<exc, retryVars, baseline_result, togomcp_result>>
    /\ UNCHANGED fixedVars

\* The loop is over: self.results = results; return results
LoopEnd ==
    /\ epc = "loop"
    /\ qi = Len(questions)
    /\ epc' = "finish"
    /\ UNCHANGED <<qi, results, intermediate, selfResults, reported, oneVars>>
    /\ UNCHANGED fixedVars

RunReturn ==
    /\ epc = "finish"
    /\ selfResults' = results
    /\ epc' = "done"
    /\ UNCHANGED <<qi, results, intermediate, reported, oneVars>>
    /\ UNCHANGED fixedVars

\* run_all_evaluations is called with a list of questions.
InitRun ==
    /\ InitServerIdle
    /\ retry_attempts \in 0..1
    /\ questions \in UNION {[1..n -> RunQuestionKinds] : n \in 0..MaxQuestions}
    /\ qi = 0
    /\ hpc = "idle"
    /\ exc = "none"
    /\ attempt = 0
    /\ result = Unbound
    /\ returning = FALSE
    /\ trace = <<>>
    /\ requests = <<>>
    /\ baseline_result = Unbound
    /\ togomcp_result = Unbound
    /\ epc = "loop"
    /\ results = <<>>
    /\ intermediate = [written |-> FALSE, rows |-> <<>>]
    /\ selfResults = <<>>
    /\ reported = -1
    /\ InitSearcherIdle

\* The steps of run_all_evaluations; the steps of run_single_evaluation
\* run inside its try block.
NextRun ==
    \/ LoopEnter
    \/ NextOne
    \/ LoopExcept
    \/ LoopAppend
    \/ LoopEnd
    \/ RunReturn

SpecRun == InitRun /\ [][NextRun]_vars

----------------------------------------------------------------------------
(* togo_mcp/ncbi_eutils_search.py: NCBIEutilsSearcher and                  *)
(* search_all_databases. Time is counted in ticks of 0.02 s.               *)

TicksPerSecond == 50

\* self.min_interval = 0.1 if api_key else 0.34
MinIntervalKey == 5
MinIntervalNoKey == 17

min_interval == IF api_key THEN MinIntervalKey ELSE MinIntervalNoKey

\* How long requests.get takes: no time, or longer than either interval
Durations == {0, MinIntervalNoKey + 1}

\* The exceptions of requests.exceptions.RequestException that requests.get
\* and raise_for_status raise
RequestExceptions == {"ConnectionError", "HTTPError"}

\* How a request ends: with a JSON response, with a RequestException, or
\* with a response whose body response.json() rejects with a ValueError
\* that is not a RequestException (requests before 2.27).
SearchOutcomes == {"ok", "ValueError"} \cup RequestExceptions

\* The keys of `databases` in search_all_databases, in insertion order
Databases == <<"gene", "pubmed", "taxonomy", "medgen", "pmc">>

\* The database of the search a caller makes next
CurrentDb == IF caller = "search_all" THEN Databases[Len(saResults) + 1] ELSE "gene"

\* The searches that have entered _search and not yet sent their request
BeforeSend == {t \in Threads : npc[t] \in {"sleep", "stamp", "get"}}

\* What _search does with the end o of its request: it returns
\* data['esearchresult'], or the error dictionary of its except clause, or
\* lets the exception through.
SearchResult(o) ==
    IF o = "ok" THEN "esearchresult"
    ELSE IF o \in RequestExceptions THEN "error_dict"
    ELSE "raised"

SetThread(f, t, v) == [f EXCEPT ![t] = v]

\* _rate_limit that never sleeps
RateLimitCheckNoSleep(t) ==
    /\ npc[t] = "idle"
    /\ Len(sends) + Cardinality(BeforeSend) < budget
    /\ npc' = SetThread(npc, t, "stamp")
    /\ UNCHANGED wake
    /\ UNCHANGED <<api_key, caller, budget, now, last_request_time, sends,
                   searchResult, saResults>>
    /\ UNCHANGED <<pc, SPARQL_ENDPOINT, startupError, loadVars, regVars, calls,
                   invokeVars, harnessVars>>

\* A search method is called and _search enters _rate_limit:
\* elapsed = time.time() - self.last_request_time; if elapsed is less than
\* min_interval the thread goes to sleep for the difference.
RateLimitCheck(t) ==
    /\ npc[t] = "idle"
    /\ Len(sends) + Cardinality(BeforeSend) < budget
    /\ LET elapsed == now - last_request_time IN
         IF elapsed < min_interval
           THEN /\ npc' = SetThread(npc, t, "sleep")
                /\ wake' = SetThread(wake, t, now + (min_interval - elapsed))
           ELSE /\ npc' = SetThread(npc, t, "stamp")
                /\ UNCHANGED wake
    /\ UNCHANGED <<api_key, caller, budget, now, last_request_time, sends,
                   searchResult, saResults>>
    /\ UNCHANGED <<pc, SPARQL_ENDPOINT, startupError, loadVars, regVars, calls,
                   invokeVars, harnessVars>>

\* time.sleep returns once the time asked for has passed.
RateLimitSleep(t) ==
    /\ npc[t] = "sleep"
    /\ now' = IF now < wake[t] THEN wake[t] ELSE now
    /\ npc' = SetThread(npc, t, "stamp")
    /\ UNCHANGED <<api_key, caller, budget, last_request_time, wake, sends,
                   searchResult, saResults>>
    /\ UNCHANGED <<pc, SPARQL_ENDPOINT, startupError, loadVars, regVars, calls,
                   invokeVars, harnessVars>>

\* self.last_request_time = time.time()
RateLimitStamp(t) ==
    /\ npc[t] = "stamp"
    /\ last_request_time' = now
    /\ npc' = SetThread(npc, t, "get")
    /\ UNCHANGED <<api_key, caller, budget, now, wake, sends, searchResult, saResults>>
    /\ UNCHANGED <<pc, SPARQL_ENDPOINT, startupError, loadVars, regVars, calls,
                   invokeVars, harnessVars>>

\* requests.get(self.BASE_URL, params=params, timeout=30): the request is
\* sent.
SearchGet(t) ==
    /\ npc[t] = "get"
    /\ sends' = Append(sends, [at |-> now, db |-> CurrentDb, thread |-> t])
    /\ npc' = SetThread(npc, t, "await")
    /\ UNCHANGED <<api_key, caller, budget, now, last_request_time, wake,
                   searchResult, saResults>>
    /\ UNCHANGED <<pc, SPARQL_ENDPOINT, startupError, loadVars, regVars, calls,
                   invokeVars, harnessVars>>

\* The entry search_all_databases stores for a search that ended with o:
\* what the search returned, or the error dictionary of its own handler.
AllEntry(db, o) ==
    [db |-> db,
     value |-> IF SearchResult(o) = "raised" THEN "error_dict" ELSE SearchResult(o),
     from |-> IF SearchResult(o) = "raised" THEN "except" ELSE "_search"]

\* The end of a request under a search_all_databases that gives up at the
\* first exception
SearchResponseStopsOnError(t, d, o) ==
    /\ npc[t] = "await"
    /\ now' = now + d
    /\ searchResult' = SetThread(searchResult, t, [outcome |-> o, result |-> SearchResult(o)])
    /\ IF caller = "search_all"
         THEN /\ saResults' = IF SearchResult(o) = "raised" THEN saResults
                              ELSE Append(saResults, AllEntry(CurrentDb, o))
              /\ npc' = SetThread(npc, t,
                          IF SearchResult(o) = "raised" \/ Len(saResults') = Len(Databases)
                            THEN "done" ELSE "idle")
         ELSE /\ npc' = SetThread(npc, t, "idle")
              /\ UNCHANGED saResults
    /\ UNCHANGED <<api_key, caller, budget, last_request_time, wake, sends>>
    /\ UNCHANGED <<pc, SPARQL_ENDPOINT, startupError, loadVars, regVars, calls,
                   invokeVars, harnessVars>>

\* The request ends after d ticks with o, and _search returns or raises;
\* in search_all_databases, `results[db_name] = search_func()` or the
\* handler's assignment stores the entry, and the loop goes on to the next
\* database or returns.
SearchResponse(t, d, o) ==
    /\ npc[t] = "await"
    /\ now' = now + d
    /\ searchResult' = SetThread(searchResult, t, [outcome |-> o, result |-> SearchResult(o)])
    /\ IF caller = "search_all"
         THEN /\ saResults' = Append(saResults, AllEntry(CurrentDb, o))
              /\ npc' = SetThread(npc, t,
                          IF Len(saResults') = Len(Databases) THEN "done" ELSE "idle")
         ELSE /\ npc' = SetThread(npc, t, "idle")
              /\ UNCHANGED saResults
    /\ UNCHANGED <<api_key, caller, budget, last_request_time, wake, sends>>
    /\ UNCHANGED <<pc, SPARQL_ENDPOINT, startupError, loadVars, regVars, calls,
                   invokeVars, harnessVars>>

\* A searcher has been made, long after the epoch, with or without an API
\* key, and the threads of `active` are about to make n searches in all.
InitSearcher(kind, n, active) ==
    /\ InitServerIdle
    /\ InitHarness
    /\ api_key \in BOOLEAN
    /\ caller = kind
    /\ budget = n
    /\ now = TicksPerSecond
    /\ last_request_time = 0
    /\ npc = [t \in Threads |-> IF t \in active THEN "idle" ELSE "off"]
    /\ wake = [t \in Threads |-> 0]
    /\ sends = <<>>
    /\ searchResult = [t \in Threads |-> NoSearch]
    /\ saResults = <<>>

NextSearch ==
    \E t \in Threads :
      \/ RateLimitCheck(t)
      \/ RateLimitSleep(t)
      \/ RateLimitStamp(t)
      \/ SearchGet(t)
      \/ \E d \in Durations, o \in SearchOutcomes : SearchResponse(t, d, o)

\* One thread makes search after search.
InitSearch == InitSearcher("loop", MaxRequests, {1})

SpecSearch == InitSearch /\ [][NextSearch]_vars

\* Two threads share the searcher.
InitShared == InitSearcher("loop", MaxSharedRequests, Threads)

SpecShared == InitShared /\ [][NextSearch]_vars

\* One thread calls search_all_databases.
InitSearchAll == InitSearcher("search_all", Len(Databases), {1})

SpecSearchAll == InitSearchAll /\ [][NextSearch]_vars

----------------------------------------------------------------------------
(* Properties of load_sparql_endpoints, checked under SpecLoad.            *)

Loaded == pc = "registry"

\* The key of the endpoint table as specified: the display name lower-cased,
\* with every space and every hyphen removed.
CanonicalKeyStripped(db_name) ==
    Replace(Replace(Lower(db_name), " ", <<>>), "-", <<>>)

DataIdx == 1..Len(DataRows(csvFile))

\* C1: when the load has returned, every row (display name, URL) whose
\* stripped key (lower-cased, spaces and hyphens removed) no other row shares
\* is found in the table under that stripped key, with its URL; and every key
\* of the table is the stripped key of some row.
C1_KeyStripsSpacesAndHyphens ==
    Loaded =>
      /\ \A i \in DataIdx :
            LET row == DataRows(csvFile)[i]
                key == CanonicalKeyStripped(row[1]) IN
            (\A j \in DataIdx \ {i} :
                CanonicalKeyStripped(DataRows(csvFile)[j][1]) # key)
              => /\ key \in DOMAIN SPARQL_ENDPOINT
                 /\ SPARQL_ENDPOINT[key] = row[2]
      /\ \A k \in DOMAIN SPARQL_ENDPOINT :
            \E i \in DataIdx : CanonicalKeyStripped(DataRows(csvFile)[i][1]) = k

\* C4: the load never returns a table for a file in which two rows have
\* display names with the same canonical key.
C4_DuplicateKeyFailsLoad ==
    Loaded =>
      \A i, j \in DataIdx :
        i # j => CanonicalKey(DataRows(csvFile)[i][1]) # CanonicalKey(DataRows(csvFile)[j][1])

HasMalformedRow == \E i \in 1..Len(csvFile) : Len(csvFile[i]) # 2

FirstMalformed ==
    CHOOSE i \in 1..Len(csvFile) :
      /\ Len(csvFile[i]) # 2
      /\ \A j \in 1..(i - 1) : Len(csvFile[j]) = 2

\* C5: with a row that does not have exactly two columns in the file, the
\* load never returns: SPARQL_ENDPOINT is never assigned, the reader never
\* gets past the first such row, and the load ends with a ValueError.
C5_MalformedRowFailsLoad ==
    HasMalformedRow =>
      /\ ~Loaded
      /\ SPARQL_ENDPOINT = EmptyDict
      /\ rowIdx < FirstMalformed
      /\ pc = "aborted" => startupError = "ValueError"

\* C5 witness: the load has failed on a malformed row after storing
\* well-formed rows in its local dict, and nothing was returned.
C5_Witness ==
    /\ pc = "aborted"
    /\ startupError = "ValueError"
    /\ HasMalformedRow
    /\ DOMAIN endpoints # {}
    /\ SPARQL_ENDPOINT = EmptyDict

\* The table the row-by-row load returns is LoadAll of the data rows.
LoadAllAgrees == Loaded => SPARQL_ENDPOINT = LoadAll(DataRows(csvFile), EmptyDict)

----------------------------------------------------------------------------
(* Properties of the merge, checked under Spec.                            *)

Imported == pc = "imported"

\* The merge loop raised
MergeFailed == pc = "aborted" /\ mergeIdx < Len(togoid_tools)

\* The merge loop is over and nothing was registered since it started
JustMerged == (Imported \/ MergeFailed) /\ handWritten = DOMAIN preMerge

GeneratedNames == {togoid_tools[i].name : i \in 1..Len(togoid_tools)}

C9_RenamedToolUnderMappedName ==
    Imported =>
      \A i \in 1..Len(schemaFile.ops) :
        LET op == schemaFile.ops[i] IN
        op \in DOMAIN mcp_names =>
          /\ mcp_names[op] \in DOMAIN mcp
          /\ op \notin DOMAIN mcp
          /\ mcp_names[op] \notin handWritten => mcp[mcp_names[op]] = GeneratedTool(op)

\* C9 witness: the schema declares getAllDataset and the merged registry
\* holds its tool as togoId_getAllDataset.
C9_Witness ==
    /\ Imported
    /\ \E i \in 1..Len(schemaFile.ops) : schemaFile.ops[i] = "getAllDataset"
    /\ "togoId_getAllDataset" \in DOMAIN mcp
    /\ mcp["togoId_getAllDataset"] = GeneratedTool("getAllDataset")
    /\ "getAllDataset" \notin DOMAIN mcp

\* No generated name is a hand-written name, and no two operations of the
\* schema have the same generated name.
CollisionFree ==
    /\ handWritten \cap GeneratedNames = {}
    /\ \A i, j \in 1..Len(togoid_tools) :
         i # j => togoid_tools[i].name # togoid_tools[j].name

\* C10: once the module body has run, with m hand-written names registered
\* and n generated tools whose names collide with none of them, the registry
\* holds exactly the m + n names, each with its own tool, and list_tools
\* returns them all.
C10_MergedRegistryHoldsAll ==
    (Imported /\ CollisionFree) =>
      /\ DOMAIN mcp = handWritten \cup GeneratedNames
      /\ Cardinality(DOMAIN mcp) = Cardinality(handWritten) + Len(togoid_tools)
      /\ list_tools = handWritten \cup GeneratedNames
      /\ \A n \in handWritten : mcp[n] = HandWrittenTool(n)
      /\ \A i \in 1..Len(togoid_tools) : mcp[togoid_tools[i].name] = togoid_tools[i].tool

\* C10 witness: get_sparql_endpoints and four generated tools, five entries.
C10_Witness ==
    /\ Imported
    /\ CollisionFree
    /\ handWritten = {"get_sparql_endpoints"}
    /\ Len(togoid_tools) = 4
    /\ Cardinality(list_tools) = 5

----------------------------------------------------------------------------
(* Properties of execute_sparql, checked under SpecExec.                   *)

Known(c) == calls[c].dbname \in DOMAIN SPARQL_ENDPOINT

Started(c) == calls[c].at # "idle"

\* C2: an invocation whose dbname is not a key of the table creates no
\* client and sends no request, and ends only with the ValueError of the
\* unknown database.
C2_UnknownDatabaseBeforeNetwork ==
    \A c \in CallIds :
      (Started(c) /\ ~Known(c)) =>
        /\ calls[c].clients = 0
        /\ calls[c].sent = <<>>
        /\ calls[c].at \in {"check", "done"}
        /\ calls[c].at = "done" => calls[c].result.kind = "ValueError"

\* C2 witness: an invocation with an unknown dbname has ended with the
\* ValueError, while the table knows other keys.
C2_Witness ==
    \E c \in CallIds :
      /\ calls[c].at = "done"
      /\ ~Known(c)
      /\ calls[c].result.kind = "ValueError"
      /\ calls[c].clients = 0
      /\ DOMAIN SPARQL_ENDPOINT # {}

\* The request execute_sparql is to send for invocation c
ExpectedRequest(c) ==
    [method |-> "POST", url |-> SPARQL_ENDPOINT[calls[c].dbname],
     query |-> calls[c].query, accept |-> "text/csv"]

\* C6: an invocation with a known dbname sends no request before its POST
\* and exactly one from then on, to the URL of the table for dbname, whatever
\* the outcome; it opens one client; and with a success status it returns
\* the body of the response.
C6_OnePostNoRetryBodyVerbatim ==
    \A c \in CallIds :
      (Started(c) /\ Known(c)) =>
        /\ calls[c].at \in {"check", "post"} => calls[c].sent = <<>>
        /\ calls[c].at \in {"await", "status", "done"}
             => calls[c].sent = <<ExpectedRequest(c)>>
        /\ calls[c].clients <= 1
        /\ (calls[c].at = "done" /\ IsSuccess(calls[c].status))
             => calls[c].result = [kind |-> "value", status |-> 0, text |-> calls[c].body]

\* C6 witness: an invocation for the second key of a two-key table got a
\* 200 and returned its body after one POST.
C6_Witness ==
    \E c \in CallIds :
      /\ calls[c].at = "done"
      /\ Cardinality(DOMAIN SPARQL_ENDPOINT) = 2
      /\ Known(c)
      /\ calls[c].status = 200
      /\ calls[c].result.kind = "value"
      /\ calls[c].result.text = "b2"
      /\ Len(calls[c].sent) = 1
      /\ calls[c].sent[1].url = "u2"

\* C7: an invocation returns a value only for a response with a success
\* status; with any other status it ends with the HTTPStatusError, and when
\* the request got no response it ends with the transport error.
C7_FailuresAreErrors ==
    \A c \in CallIds :
      calls[c].at = "done" =>
        /\ calls[c].result.kind = "value" => IsSuccess(calls[c].status)
        /\ (calls[c].status # 0 /\ ~IsSuccess(calls[c].status))
             => /\ calls[c].result.kind = "HTTPStatusError"
                /\ calls[c].result.text # calls[c].body
        /\ (Known(c) /\ calls[c].status = 0)
             => /\ calls[c].result.kind = "RequestError"
                /\ calls[c].result.text = "-"

\* C7 witness: one invocation ended on a 404 and another on a transport
\* failure, both with an error.
C7_Witness ==
    \E c, d \in CallIds :
      /\ calls[c].at = "done"
      /\ calls[c].status = 404
      /\ calls[c].result.kind = "HTTPStatusError"
      /\ calls[d].at = "done"
      /\ calls[d].result.kind = "RequestError"

\* C8: no step of an invocation of execute_sparql changes the endpoint
\* table.
C8_EndpointTableNeverChanges == [][SPARQL_ENDPOINT' = SPARQL_ENDPOINT]_vars

\* C8 witness: against a non-empty table, one invocation has returned a
\* value and another has failed on an unknown key.
C8_Witness ==
    \E c, d \in CallIds :
      /\ DOMAIN SPARQL_ENDPOINT # {}
      /\ calls[c].result.kind = "value"
      /\ calls[d].result.kind = "ValueError"

\* The outcome of invocation c run alone: it depends only on its dbname,
\* the table, and the response (or the lack of one) to its own request.
AloneOutcome(c) ==
    IF ~Known(c) THEN [kind |-> "ValueError", status |-> 0, text |-> "-"]
    ELSE IF calls[c].status = 0 THEN [kind |-> "RequestError", status |-> 0, text |-> "-"]
    ELSE IF IsSuccess(calls[c].status)
           THEN [kind |-> "value", status |-> 0, text |-> calls[c].body]
           ELSE [kind |-> "HTTPStatusError", status |-> calls[c].status, text |-> "-"]

\* C14: in every interleaving, each step of an invocation changes the
\* record of that invocation only and leaves the table alone, each
\* invocation opens its own client, at most one, and an invocation that has
\* ended has the outcome it would have had alone.
C14_ConcurrentCallsIndependent ==
    /\ [](\A c \in CallIds :
            /\ calls[c].open <= calls[c].clients
            /\ calls[c].clients <= 1
            /\ calls[c].at = "done" => calls[c].result = AloneOutcome(c))
    /\ [][/\ \E c \in CallIds : \A d \in CallIds \ {c} : calls'[d] = calls[d]
          /\ SPARQL_ENDPOINT' = SPARQL_ENDPOINT]_vars

\* C14 witness: one invocation has failed on a 500 while another, started
\* before that failure, still awaits its response with its client open.
C14_Witness ==
    \E c, d \in CallIds :
      /\ calls[c].at = "done"
      /\ calls[c].result.kind = "HTTPStatusError"
      /\ calls[c].status = 500
      /\ calls[d].at = "await"
      /\ calls[d].open = 1
      /\ calls[d].dbname # calls[c].dbname

----------------------------------------------------------------------------
(* Properties of the registry's phases and of invoke, checked under Spec.  *)

Serving == pc = "serving"

C13_UnknownToolNoSideEffect ==
    [][(lastInvoke' # lastInvoke /\ lastInvoke'.name \notin DOMAIN mcp)
         => /\ lastInvoke'.outcome = "UnknownTool"
            /\ toolRuns' = toolRuns
            /\ calls' = calls
            /\ mcp' = mcp]_vars

\* C13 witness: a tool has run, and the last invoke, for a name that is not
\* registered, ended with UnknownTool.
C13_Witness ==
    /\ Serving
    /\ toolRuns # {}
    /\ lastInvoke.name \notin DOMAIN mcp
    /\ lastInvoke.outcome = "UnknownTool"

\* The display name of the row the loop stored last
LastStored == csvFile[rowIdx][1]

\* C16: the key derivation applied to a key it has produced yields that
\* key: the key under which the loop has just stored a display name is in
\* the table and is its own canonical key, and the table returned has the
\* keys the loop stored.
C16_CanonicalKeyIdempotent ==
    /\ (pc = "load_rows" /\ rowIdx > 1) =>
         LET key == CanonicalKey(LastStored) IN
           /\ key \in DOMAIN endpoints
           /\ CanonicalKey(key) = key
    /\ Loaded => SPARQL_ENDPOINT = endpoints

\* C16 witness: the table returned holds the key of a display name with
\* an upper-case letter and a space, which is not its own key.
C16_Witness ==
    /\ Loaded
    /\ \E i \in DataIdx :
         LET n == DataRows(csvFile)[i][1] IN
           /\ n = <<"A", " ">>
           /\ CanonicalKey(n) # n
           /\ CanonicalKey(n) \in DOMAIN SPARQL_ENDPOINT

----------------------------------------------------------------------------
(* Properties of run_single_evaluation and its callees, under SpecOne.     *)

\* The positions of the trace at which _make_api_call was called
CallIdx == {i \in 1..Len(trace) : trace[i].ev = "call"}

\* The test in progress has handed its result back to run_single_evaluation
Returned == hpc \in {"baseline", "togomcp"} /\ returning

\* C15: _run_with_retry makes at most retry_attempts calls; a successful
\* call is the last one and its result is the one returned; a sleep happens
\* only right after a failed call that another attempt follows, and always
\* then; when every attempt has failed the result returned is that of the
\* last attempt, after exactly retry_attempts calls.
C15_RetryBoundedFixedDelay ==
    /\ Cardinality(CallIdx) <= retry_attempts
    /\ \A i \in 1..Len(trace) :
         /\ (trace[i].ev = "call") <=> (i % 2 = 1)
         /\ trace[i].ev = "sleep" =>
              /\ trace[i - 1].res.bound /\ ~trace[i - 1].res.success
              /\ i < 2 * retry_attempts
         /\ (trace[i].ev = "call" /\ trace[i].res.success) =>
              /\ i = Len(trace)
              /\ returning
              /\ result = trace[i].res
         /\ (trace[i].ev = "call" /\ trace[i].res.bound /\ ~trace[i].res.success
               /\ i = Len(trace)) => Cardinality(CallIdx) = retry_attempts
    /\ (Returned /\ ~result.success) =>
         /\ Cardinality(CallIdx) = retry_attempts
         /\ result = trace[Len(trace)].res

\* Three attempts, all failed, two sleeps, and the last error is returned
C15_Witness ==
    /\ Returned
    /\ retry_attempts = 3
    /\ Len(trace) = 5
    /\ trace[1].res.text = "e1"
    /\ result.text = "e2"

\* The results _make_api_call has handed out that are still in scope
ResultsInScope ==
    {trace[i].res : i \in CallIdx} \cup {result, baseline_result, togomcp_result}

\* A result dictionary as C17 describes it
WellFormedResult(r) ==
    /\ {"success", "elapsed_time"} \subseteq r.keys
    /\ r.success <=> {"text", "tool_uses", "usage"} \subseteq r.keys
    /\ ~r.success <=> "error" \in r.keys

\* C17 as stated: _make_api_call never raises, every call returns a
\* well-formed result, and no key is missing when the row is built.
C17_MakeApiCallNeverRaises ==
    /\ \A i \in CallIdx : trace[i].res.bound
    /\ \A r \in ResultsInScope : r.bound => WellFormedResult(r)
    /\ exc # "KeyError_result"

\* C17 amended: no Exception leaves _make_api_call, only a keyboard
\* interrupt does, and it ends the evaluation at once; every call that
\* returns gives a well-formed result; no key is missing when the row is
\* built.
C17_OnlyInterruptEscapes ==
    /\ \A i \in CallIdx :
         ~trace[i].res.bound =>
           /\ i = Len(trace)
           /\ hpc = "raised"
           /\ exc = "KeyboardInterrupt"
    /\ \A r \in ResultsInScope : r.bound => WellFormedResult(r)
    /\ exc # "KeyError_result"
    /\ hpc = "returned" => baseline_result.bound /\ togomcp_result.bound

\* A row built from a successful and a failed result
C17_Witness ==
    /\ hpc = "returned"
    /\ baseline_result.success
    /\ ~togomcp_result.success
    /\ togomcp_result.text = "e1"

\* C18: no request of the baseline test carries mcp_servers, and every
\* request of the TogoMCP test does.
C18_ToolServersOnlyInTogoTest ==
    \A i \in 1..Len(requests) :
      /\ requests[i].test = "baseline" => requests[i].servers = "absent"
      /\ requests[i].test = "togomcp" => requests[i].servers # "absent"

----------------------------------------------------------------------------
(* Properties of run_all_evaluations, checked under SpecRun.               *)

\* A question whose evaluation cannot complete: it has no "question" key,
\* or no attempt is configured.
CannotComplete(i) == ~questions[i].hasText \/ retry_attempts = 0

\* C19: the questions enter run_single_evaluation in input order, each at
\* most once; the result list holds the rows of questions already passed,
\* in input order and without repetition, never more than there are
\* questions, and none of a question that cannot complete; a row is added
\* exactly when the evaluation of the current question returns; and an
\* error other than the keyboard interrupt adds no row and hands the loop
\* the next question.
C19_RowsOfCompletedInOrder ==
    /\ [](/\ Len(results) <= Len(questions)
          /\ qi <= Len(questions)
          /\ \A k \in 1..Len(results) :
               /\ results[k] \in 1..qi
               /\ ~CannotComplete(results[k])
               /\ k > 1 => results[k - 1] < results[k])
    /\ [][/\ qi' \in {qi, qi + 1}
          /\ (hpc' = "start" /\ hpc # "start") => (epc = "loop" /\ qi' = qi)
          /\ results' # results =>
               (hpc = "returned" /\ results' = Append(results, qi + 1) /\ qi' = qi + 1)
          /\ (hpc = "returned" /\ hpc' # "returned") =>
               results' = Append(results, qi + 1)
          /\ (hpc = "raised" /\ hpc' # "raised") =>
               /\ results' = results
               /\ exc # "KeyboardInterrupt" => (epc' = "loop" /\ qi' = qi + 1)]_vars

\* C19 witness: of three questions the second failed for want of its text,
\* and the run returned the rows of the first and the third.
C19_Witness ==
    /\ epc = "done"
    /\ Len(questions) = 3
    /\ ~questions[2].hasText
    /\ selfResults = <<1, 3>>

\* C20: whenever the number of questions processed is a positive multiple
\* of 5 and some result has been collected (_export_to_csv writes nothing
\* for an empty list), the intermediate file has been written and holds
\* every result collected so far.
C20_SavedEveryFive ==
    (epc = "loop" /\ qi > 0 /\ qi % SaveEvery = 0 /\ results # <<>>) =>
      /\ intermediate.written
      /\ intermediate.rows = results

\* The run was interrupted from the keyboard and its loop has been left
Interrupted == epc \in {"finish", "done"} /\ reported >= 0

\* C21: after an interrupt during question i the evaluation is over and the
\* loop has not moved past that question, the count reported as completed
\* is the number of rows collected, and the rows collected are what the run
\* stores in self.results and returns.
C21_InterruptKeepsRowsAndCount ==
    Interrupted =>
      /\ hpc = "idle"
      /\ qi = reported
      /\ reported = Len(results)
      /\ epc = "done" => selfResults = results

----------------------------------------------------------------------------
(* Termination of _run_with_retry, checked under SpecOne.                  *)

\* C24: whatever retry_attempts is configured, _run_with_retry does not
\* end with the error of an unassigned result, and what it returns is a
\* result dictionary with the 'success' field.
C24_RetryReturnsResult ==
    /\ exc # "UnboundLocalError"
    /\ Returned => (result.bound /\ "success" \in result.keys)

----------------------------------------------------------------------------
(* Properties of NCBIEutilsSearcher and search_all_databases.              *)

\* "Without API key: max 3 requests/second; with API key: max 10"
LimitNoKey == 3
LimitKey == 10

PerSecondLimit == IF api_key THEN LimitKey ELSE LimitNoKey

\* The requests that start in the one-second window opening at time w
InWindow(w) == {i \in 1..Len(sends) : w <= sends[i].at /\ sends[i].at < w + TicksPerSecond}

\* C22: with one calling thread, each request is sent at least min_interval
\* after the one before it, and no half-open one-second window that opens
\* at a request holds more requests than the limit of the key (a window
\* with the most requests can always be moved to open at its first one).
C22_SpacedRequestsSingleThread ==
    /\ \A i \in 1..(Len(sends) - 1) : sends[i + 1].at - sends[i].at >= min_interval
    /\ \A i \in 1..Len(sends) : Cardinality(InWindow(sends[i].at)) <= PerSecondLimit

\* C22 witness: with a key, ten requests went out within one second at the
\* closest spacing, and the eleventh exactly one second after the first.
C22_Witness ==
    /\ api_key
    /\ Len(sends) > LimitKey
    /\ sends[LimitKey + 1].at - sends[1].at = TicksPerSecond
    /\ Cardinality(InWindow(sends[1].at)) = LimitKey

\* C23: a search whose request failed with a RequestException returned the
\* error dictionary; search_all_databases has sent one request per stored
\* entry, in the order of its databases, whatever the earlier searches
\* ended with, and the entry of a search that did not end well is the error
\* dictionary; and when it returns, it has exactly the five entries gene,
\* pubmed, taxonomy, medgen and pmc.
C23_FailuresAreValues ==
    /\ \A t \in Threads :
         searchResult[t].outcome \in RequestExceptions
           => searchResult[t].result = "error_dict"
    /\ Len(saResults) <= Len(sends)
    /\ Len(sends) <= Len(saResults) + 1
    /\ \A k \in 1..Len(sends) : sends[k].db = Databases[k]
    /\ \A k \in 1..Len(saResults) :
         /\ saResults[k].db = Databases[k]
         /\ saResults[k].value \in {"esearchresult", "error_dict"}
    /\ (npc[1] = "idle" /\ saResults # <<>>) =>
         (saResults[Len(saResults)].value = "error_dict"
            <=> searchResult[1].outcome # "ok")
    /\ npc[1] = "done" =>
         /\ Len(saResults) = Len(Databases)
         /\ {saResults[k].db : k \in 1..Len(saResults)}
              = {"gene", "pubmed", "taxonomy", "medgen", "pmc"}

\* C23 witness: the first search failed inside _search, the second raised
\* past it, and the remaining three ran and the last succeeded.
C23_Witness ==
    /\ npc[1] = "done"
    /\ saResults[1].value = "error_dict"
    /\ saResults[1].from = "_search"
    /\ saResults[2].from = "except"
    /\ saResults[5].value = "esearchresult"
    /\ Len(sends) = 5

\* C25: with two threads sharing the searcher, any two of its requests are
\* sent at least min_interval apart.
C25_SpacedRequestsSharedSearcher ==
    \A i, j \in 1..Len(sends) :
      i < j => sends[j].at - sends[i].at >= min_interval


============================================================================
